---- MODULE Spec2Model ----
(***************************************************************************)
(* A model of src/lumache.py (relAI): the autoencoder training loop, the   *)
(* reliability detectors, the synthetic point generator and the MSE        *)
(* threshold calibration.                                                  *)
(*                                                                         *)
(* Numbers are fixed-point integers.  A sample of a queried dataset is a   *)
(* point of Points; the frozen autoencoder is the function that gives each *)
(* point its reconstruction error (mean squared error against its own      *)
(* projection).  A fitted proxy classifier is the function that gives each *)
(* point its predicted class.                                              *)
(***************************************************************************)
EXTENDS Integers, Sequences, FiniteSets

VARIABLES
    ae,        \* the trained, frozen autoencoder: sample -> reconstruction error
    RD,        \* the client's detector object
    rng,       \* the state of numpy's global random generator
    X_train,   \* the client's training array, rows of feature values
    y_train,   \* the client's training labels
    ret,       \* the last call: function, arguments, outcome, value
    frame      \* the locals of the training call in progress

vars == <<ae, RD, rng, X_train, y_train, ret, frame>>

(* ------------------------------ bounds --------------------------------- *)

NumPoints == 2
MaxErr == 1
MaxLen == 2
MaxAcc == 1
MaxRows == 2
RngMod == 7
MaxEpochs == 2

\* feature values are fixed-point numbers in units of 0.1 (line 208: j * 0.1)
Scale == 10

Points == 1..NumPoints
Errs == 0..MaxErr
Accs == 0..MaxAcc

\* every sequence over S of length lo..hi
SeqsOf(S, lo, hi) == UNION {[1..n -> S] : n \in lo..hi}

\* the kinds of feature column: whole numbers only, no whole number, both
ColumnKinds == {"integer", "continuous", "mixed"}
ColumnValue(kind, row) ==
    IF kind = "integer" THEN Scale * (row % 2)
    ELSE IF kind = "continuous" THEN Scale * row + 5
    ELSE IF row = 1 THEN Scale ELSE Scale * row + 3

\* the column layouts: each kind at most once, in any order
ColumnLayouts == {c \in SeqsOf(ColumnKinds, 1, Cardinality(ColumnKinds)) :
                     \A i, j \in 1..Len(c) : c[i] = c[j] => i = j}

TrainSet(layout, n) ==
    [row \in 1..n |-> [i \in 1..Len(layout) |-> ColumnValue(layout[i], row)]]

TrainSets == {TrainSet(c, n) : c \in ColumnLayouts, n \in 1..MaxRows}

\* the label arrays of n rows: all ones, or alternating
TrainLabels(n) == {[row \in 1..n |-> 1], [row \in 1..n |-> row % 2]}

Methods == {"GN", "Gaussian-noise", "uniform"}

Metrics == {"balanced_accuracy", "precision", "recall", "f1_score", "mcc",
            "brier_score", "accuracy"}

\* the validation sets: up to MaxLen samples, repeats allowed
ValidationSets == SeqsOf(Points, 1, MaxLen)

\* the queried datasets: up to MaxLen distinct samples, in any order
Datasets == {X \in SeqsOf(Points, 0, MaxLen) :
                \A i, j \in 1..Len(X) : X[i] = X[j] => i = j}
AccArrays == SeqsOf(Accs, 1, MaxLen)
\* the shortest accuracy arrays that can hold both classes
AccPairs == [1..2 -> Accs]
\* the frozen autoencoders: samples are interchangeable, so they are numbered
\* in the order of their reconstruction errors
Autoencoders == {a \in [Points -> Errs] : \A p, q \in Points : p <= q => a[p] <= a[q]}
\* the autoencoder that reconstructs every sample exactly
PerfectAutoencoder == [p \in Points |-> 0]

Modes == {"density", "local-fit", "total", "global"}
ProxyModels == {"MLP", "tree", "forest"}

None == "None"
NoDetector == [kind |-> "none"]
NoCall == [fn |-> "none"]

\* training arrays matter to the loop only through their number of rows
TrainingSets == {[row \in 1..n |-> ((row - 1) % NumPoints) + 1] : n \in {1, MaxLen}}
BatchSizes == {1, MaxLen}
EpochCounts == 0..MaxEpochs
TrainingFunctions == {"train_autoencoder", "get_and_train_autoencoder"}

\* no training call is in progress; i = Unbound is Python's unassigned local
Unbound == -1
NoFrame == [pc |-> "idle", fn |-> "none", training_set |-> <<>>,
            validation_set |-> <<>>, batchsize |-> 1, epochs |-> 0,
            epoch_number |-> 0, validation_loss |-> <<>>, training |-> TRUE,
            steps |-> 0, remaining |-> {}, running_vloss |-> 0, i |-> Unbound]

(* ------------------- ReliabilityPackage.ReliabilityClasses ------------- *)

\* DensityPrincipleDetector(ae, mse_thresh)
DensityPrincipleDetector(a, mse_thresh) ==
    [kind |-> "DensityPrincipleDetector", ae |-> a, mse_thresh |-> mse_thresh]

\* ReliabilityDetector(ae, clf, mse_thresh)
ReliabilityDetector(a, clf, mse_thresh) ==
    [kind |-> "ReliabilityDetector", ae |-> a, clf |-> clf,
     mse_thresh |-> mse_thresh]

\* reliable <=> reconstruction error of the sample <= threshold
compute_density_reliability(D, x) ==
    IF D.ae[x] <= D.mse_thresh THEN 1 ELSE 0

\* reliable <=> the proxy classifier predicts class 1
compute_localfit_reliability(D, x) ==
    IF D.clf[x] = 1 THEN 1 ELSE 0

\* reliable <=> both sub-checks say reliable
compute_total_reliability(D, x) ==
    IF compute_density_reliability(D, x) = 1
       /\ compute_localfit_reliability(D, x) = 1 THEN 1 ELSE 0

(* ------------------------------ lumache.py ----------------------------- *)

density_predictor_wrong_thresh(a, mse_thresh) ==
    DensityPrincipleDetector(a, MaxErr - mse_thresh)

density_predictor(a, mse_thresh) ==
    DensityPrincipleDetector(a, mse_thresh)

binarize_strict(acc_syn, acc_thresh) ==
    [i \in 1..Len(acc_syn) |-> IF acc_syn[i] > acc_thresh THEN 1 ELSE 0]

\* lines 520-522: one label per accuracy, in order; 1 iff acc_syn[i] >= acc_thresh
binarize(acc_syn, acc_thresh) ==
    [i \in 1..Len(acc_syn) |-> IF acc_syn[i] >= acc_thresh THEN 1 ELSE 0]

Range(s) == {s[i] : i \in 1..Len(s)}

\* MLPClassifier(...).fit / DecisionTreeClassifier(...).fit: the fitted
\* classifier is any function from samples to the classes seen in training
Fits(y_syn_pts) == [Points -> Range(y_syn_pts)]

allowed_proxy_model == {"MLP", "tree"}

create_reliability_detector_late_check(a, acc_syn, mse_thresh, acc_thresh, proxy_model, clf) ==
    LET y_syn_pts == binarize(acc_syn, acc_thresh) IN
    IF proxy_model \notin allowed_proxy_model
    THEN [outcome |-> "ValueError", value |-> None,
          effects |-> <<"binarize">>, y_syn_pts |-> y_syn_pts]
    ELSE [outcome |-> "return",
          value |-> ReliabilityDetector(a, clf, mse_thresh),
          effects |-> <<"binarize", "fit", "construct">>,
          y_syn_pts |-> y_syn_pts]

\* clf is what fit returns for the binarized labels
create_reliability_detector(a, acc_syn, mse_thresh, acc_thresh, proxy_model, clf) ==
    IF proxy_model \notin allowed_proxy_model
    THEN [outcome |-> "ValueError", value |-> None,
          effects |-> <<>>, y_syn_pts |-> <<>>]
    ELSE LET y_syn_pts == binarize(acc_syn, acc_thresh) IN
         [outcome |-> "return",
          value |-> ReliabilityDetector(a, clf, mse_thresh),
          effects |-> <<"binarize", "fit", "construct">>,
          y_syn_pts |-> y_syn_pts]

\* a detector without a proxy classifier cannot answer a local-fit query
method_result(D, X, needs_clf, labels) ==
    IF needs_clf /\ D.kind # "ReliabilityDetector"
    THEN [outcome |-> "InvalidOperation", value |-> None]
    ELSE [outcome |-> "return", value |-> labels]

compute_dataset_reliability_total_as_density(D, X, mode) ==
    IF mode = "total" \/ mode = "density"
    THEN method_result(D, X, FALSE,
            [i \in 1..Len(X) |-> compute_density_reliability(D, X[i])])
    ELSE IF mode = "local-fit"
    THEN method_result(D, X, TRUE,
            [i \in 1..Len(X) |-> compute_localfit_reliability(D, X[i])])
    ELSE [outcome |-> "return", value |-> None]

\* a mode outside the three falls off the end of the function: None
compute_dataset_reliability(D, X, mode) ==
    IF mode = "total"
    THEN method_result(D, X, TRUE,
            [i \in 1..Len(X) |-> compute_total_reliability(D, X[i])])
    ELSE IF mode = "density"
    THEN method_result(D, X, FALSE,
            [i \in 1..Len(X) |-> compute_density_reliability(D, X[i])])
    ELSE IF mode = "local-fit"
    THEN method_result(D, X, TRUE,
            [i \in 1..Len(X) |-> compute_localfit_reliability(D, X[i])])
    ELSE [outcome |-> "return", value |-> None]

(* ----------------------- synthetic point generation -------------------- *)

\* line 202: for j in range(2, 7)
FirstLevel == 2
LastLevel == 6

\* numpy's global generator: a deterministic stream of states from a seed
RngStep(r) == (3 * r + 1) % RngMod

RECURSIVE RngAfter(_, _)
RngAfter(r, t) == IF t = 0 THEN r ELSE RngAfter(RngStep(r), t - 1)

\* the states of the generator's next t draws
RngStream(r, t) == [i \in 1..t |-> RngAfter(r, i - 1)]

\* np.random.normal(0, 1): a non-zero deviate, by the generator's state
StandardNormal(r) == <<-2, -1, 1, 2>>[(r % 4) + 1]

Column(X, i) == [row \in 1..Len(X) |-> X[row][i]]

\* _contains_only_integers: every value of the column is a whole number
contains_only_integers(col) == \A row \in 1..Len(col) : col[row] % Scale = 0

\* _extract_values_proportionally: each row draws one of the observed values,
\* every occurrence being equally likely
extract_values_proportionally(col, draws) ==
    [row \in 1..Len(col) |-> col[(draws[row] % Len(col)) + 1]]

\* the draws that column i of noise level j consumes, one per row
ColumnDraws(stream, X, j, i) ==
    LET n == Len(X)
        d == Len(X[1])
        first == ((j - FirstLevel) * d + (i - 1)) * n
    IN [row \in 1..n |-> stream[first + row]]

noisy_data_temp_all_noised(X, j, stream) ==
    LET n == Len(X)
        d == Len(X[1])
    IN [row \in 1..n |-> [i \in 1..d |->
           X[row][i] + j * StandardNormal(ColumnDraws(stream, X, j, i)[row])]]

\* lines 203-209: the noisy copy of the training set for noise level j
noisy_data_temp(X, j, stream) ==
    LET n == Len(X)
        d == Len(X[1])
        newcol == [i \in 1..d |->
            LET col == Column(X, i)
                draws == ColumnDraws(stream, X, j, i)
            IN IF contains_only_integers(col)
               THEN extract_values_proportionally(col, draws)
               ELSE [row \in 1..n |-> col[row] + j * StandardNormal(draws[row])]]
    IN [row \in 1..n |-> [i \in 1..d |-> newcol[i][row]]]

X_train_aliased(X, block) == block

\* line 203: noisy_data_temp is a copy, so writing its columns leaves X_train
X_train_after_block(X, block) == X

\* lines 201-211: the original block followed by one block per noise level
RECURSIVE noise_levels(_, _, _, _)
noise_levels(X, j, stream, noisy_data) ==
    IF j > LastLevel
    THEN [X_train |-> X, noisy_data |-> noisy_data]
    ELSE LET block == noisy_data_temp(X, j, stream) IN
         noise_levels(X_train_after_block(X, block), j + 1, stream,
                      noisy_data \o block)

\* the target classifiers: one that always answers 1, one that thresholds
\* the first feature
Predictors == {"one", "first"}
predict(predict_func, row) ==
    IF predict_func = "one" THEN 1 ELSE IF row[1] >= Scale THEN 1 ELSE 0

Abs(v) == IF v < 0 THEN -v ELSE v

RECURSIVE Distance(_, _, _)
Distance(p, q, i) ==
    IF i = 0 THEN 0 ELSE Abs(p[i] - q[i]) + Distance(p, q, i - 1)

\* the k training rows nearest to p, ties going to the earlier row
Neighbours(p, X, k) ==
    LET dist == [a \in 1..Len(X) |-> Distance(p, X[a], Len(p))]
        nearer(b, a) == dist[b] < dist[a] \/ (dist[b] = dist[a] /\ b < a)
    IN {a \in 1..Len(X) : Cardinality({b \in 1..Len(X) : nearer(b, a)}) < k}

\* _compute_synpts_accuracy: per synthetic point, the percentage of its k
\* nearest training rows whose predicted label is the true label
compute_synpts_accuracy(predict_func, noisy_data, X, y, k) ==
    LET agrees == {a \in 1..Len(X) : predict(predict_func, X[a]) = y[a]} IN
    [s \in 1..Len(noisy_data) |->
        (100 * Cardinality(Neighbours(noisy_data[s], X, k) \cap agrees)) \div k]

generated_without_original(predict_func, X, y, k, r) ==
    LET draws == (LastLevel - FirstLevel + 1) * Len(X) * Len(X[1]) IN
    CHOOSE res \in
        {[outcome |-> "return",
          value |-> [noisy_data |-> g.noisy_data,
                     acc_syn |-> compute_synpts_accuracy(predict_func,
                                     g.noisy_data, g.X_train, y, k)],
          effects |-> <<"copy", "perturb", "accuracy">>,
          X_train |-> g.X_train, y_train |-> y, rng |-> RngAfter(r, draws)] :
         g \in {noise_levels(X, FirstLevel, RngStream(r, draws), <<>>)}} : TRUE

\* lines 200-215: the synthetic set, its accuracies, and what the call
\* leaves in the training arrays and the generator
generated(predict_func, X, y, k, r) ==
    LET draws == (LastLevel - FirstLevel + 1) * Len(X) * Len(X[1]) IN
    CHOOSE res \in
        {[outcome |-> "return",
          value |-> [noisy_data |-> g.noisy_data,
                     acc_syn |-> compute_synpts_accuracy(predict_func,
                                     g.noisy_data, g.X_train, y, k)],
          effects |-> <<"copy", "perturb", "accuracy">>,
          X_train |-> g.X_train, y_train |-> y, rng |-> RngAfter(r, draws)] :
         g \in {noise_levels(X, FirstLevel, RngStream(r, draws), X)}} : TRUE

allowed_methods == {"GN"}

generate_synthetic_points_long_tag(predict_func, X, y, method, k, r) ==
    IF method # "Gaussian-noise"
    THEN [outcome |-> "ValueError", value |-> None, effects |-> <<>>,
          X_train |-> X, y_train |-> y, rng |-> r]
    ELSE generated(predict_func, X, y, k, r)

\* r is the generator's state at the call; the result carries the arrays and
\* the generator as the call leaves them
generate_synthetic_points(predict_func, X, y, method, k, r) ==
    IF method \notin allowed_methods
    THEN [outcome |-> "ValueError", value |-> None, effects |-> <<>>,
          X_train |-> X, y_train |-> y, rng |-> r]
    ELSE generated(predict_func, X, y, k, r)

(* ------------------------- MSE threshold calibration ------------------- *)

\* np.percentile takes its percentile in [0, 100]; its result is kept as a
\* fixed-point number in hundredths of the unit of the errors
Hundred == 100
\* line 218: perc=95
DefaultPerc == 95
\* lines 286 and 385: range(2, 100)
FirstPercentile == 2
LastPercentile == 99

\* the k-th smallest of the values, k = 1..Len(values)
KthSmallest(values, k) ==
    CHOOSE v \in Range(values) :
        /\ Cardinality({i \in 1..Len(values) : values[i] < v}) < k
        /\ k <= Cardinality({i \in 1..Len(values) : values[i] <= v})

\* np.percentile(values, q): linear interpolation between the two order
\* statistics around the position q/100 * (n - 1)
np_percentile(values, q) ==
    LET n == Len(values)
        pos == q * (n - 1)
        lo == pos \div Hundred
        hi == IF lo + 1 < n THEN lo + 1 ELSE lo
        frac == pos % Hundred
    IN IF frac = 0
       THEN Hundred * KthSmallest(values, lo + 1)
       ELSE (Hundred - frac) * KthSmallest(values, lo + 1)
            + frac * KthSmallest(values, hi + 1)

\* lines 233-237: the reconstruction error of every validation sample
mse_val(a, validation_set) ==
    [i \in 1..Len(validation_set) |-> a[validation_set[i]]]

perc_mse_threshold_from_top(a, validation_set, perc) ==
    np_percentile(mse_val(a, validation_set), Hundred - perc)

perc_mse_threshold(a, validation_set, perc) ==
    np_percentile(mse_val(a, validation_set), perc)

\* _val_scores_diff_mse: per percentile 2..99 the threshold and the number of
\* validation samples it finds unreliable (the six scores of each subset are
\* values of sklearn's metrics and are not represented)
val_scores_diff_mse(a, X_val) ==
    LET count == LastPercentile - FirstPercentile + 1 IN
    CHOOSE sweep \in
        {[mse_threshold_list |-> thresholds,
          num_unrel |-> [i \in 1..count |->
              Cardinality({s \in 1..Len(X_val) :
                              Hundred * a[X_val[s]] > thresholds[i]})]] :
         thresholds \in {[i \in 1..count |->
                            perc_mse_threshold(a, X_val, FirstPercentile + i - 1)]}} :
        TRUE

allowed_metrics == <<"balanced_accuracy", "precision", "recall", "f1_score",
                     "mcc", "brier_score">>

\* lines 264-359: the figure has one reliable and one unreliable trace per
\* percentile, a slider step per percentile, and shows the last step
mse_threshold_plot(a, X_val, metric) ==
    IF metric \notin Range(allowed_metrics)
    THEN [outcome |-> "ValueError", value |-> None, effects |-> <<>>]
    ELSE LET metrx == (CHOOSE i \in 1..Len(allowed_metrics) :
                           allowed_metrics[i] = metric) - 1
             percentiles == [i \in 1..(LastPercentile - FirstPercentile + 1) |->
                                FirstPercentile + i - 1]
         IN CHOOSE res \in
              {[outcome |-> "return",
                value |-> [metrx |-> metrx,
                           traces |-> 2 * Len(percentiles),
                           x |-> percentiles,
                           mse_threshold_list |-> sweep.mse_threshold_list,
                           num_rel |-> [i \in 1..Len(percentiles) |->
                                           Len(X_val) - sweep.num_unrel[i]],
                           num_unrel |-> sweep.num_unrel,
                           labels |-> percentiles,
                           active |-> Len(percentiles) - 1],
                effects |-> <<"sweep", "figure">>] :
               sweep \in {val_scores_diff_mse(a, X_val)}} : TRUE

\* lines 457-468: the entry shown first, and the percentile its title names
ActiveEntry == 49
ActiveTitlePercentile == 50

\* lines 441-452: slider step i (0-based) of the bar plot: its label names
\* percentile i + 2, its title the threshold of entry i, percentile i + 1 and
\* the unreliable count of entry i
barplot_step(sweep, i) ==
    [label |-> i + 2,
     title |-> [mse_threshold |-> sweep.mse_threshold_list[i + 1],
                percentile |-> i + 1,
                num_unrel |-> sweep.num_unrel[i + 1]]]

\* lines 383-473: one bar trace and one slider step per swept threshold; the
\* figure opens on entry 49 (the title's percentage of unreliable samples is
\* not represented)
mse_threshold_barplot(a, X_val) ==
    CHOOSE res \in
      {[outcome |-> "return",
        value |-> [traces |-> Len(sweep.mse_threshold_list),
                   mse_threshold_list |-> sweep.mse_threshold_list,
                   steps |-> [k \in 1..Len(sweep.mse_threshold_list) |->
                                 barplot_step(sweep, k - 1)],
                   visible |-> ActiveEntry,
                   active |-> ActiveEntry,
                   title |-> [mse_threshold |->
                                  sweep.mse_threshold_list[ActiveEntry + 1],
                              percentile |-> ActiveTitlePercentile,
                              num_unrel |-> sweep.num_unrel[ActiveEntry + 1]]],
        effects |-> <<"sweep", "figure">>] :
       sweep \in {val_scores_diff_mse(a, X_val)}} : TRUE

(* ------------------------------ training ------------------------------ *)

\* losses are fixed-point numbers in units of 1/LossScale
LossScale == 36

RECURSIVE SumErrors(_, _, _)
SumErrors(a, validation_set, batch) ==
    IF batch = {} THEN 0
    ELSE LET s == CHOOSE t \in batch : TRUE IN
         a[validation_set[s]] + SumErrors(a, validation_set, batch \ {s})

\* DataLoader(batch_size=batchsize): the number of batches of n rows
Batches(n, batchsize) == (n + batchsize - 1) \div batchsize

\* DataLoader(shuffle=True): the next batch is any batchsize of the rows not
\* yet served, or all of them when fewer are left
NextBatches(remaining, batchsize) ==
    {b \in SUBSET remaining :
        Cardinality(b) = IF Cardinality(remaining) < batchsize
                         THEN Cardinality(remaining) ELSE batchsize}

\* lines 83-84: the reconstruction of a validation batch and its MSE loss
vloss(a, validation_set, batch) ==
    (LossScale * SumErrors(a, validation_set, batch)) \div Cardinality(batch)

\* the reconstruction errors after the parameters moved: every error one
\* level lower (d = -1), the same (d = 0) or one level higher (d = 1)
Moved(a, d) ==
    [p \in Points |-> IF a[p] + d < 0 THEN 0
                      ELSE IF a[p] + d > MaxErr THEN MaxErr ELSE a[p] + d]

\* _train_one_epoch: one optimizer step per mini-batch of the shuffled training
\* loader; the epoch may lower the errors, leave them or raise them
train_one_epoch(a, training_set, batchsize) ==
    [models |-> {Moved(a, d) : d \in {-1, 0, 1}},
     steps |-> Batches(Len(training_set), batchsize)]

validation_loss_overwrite(validation_loss, avg_vloss) == <<avg_vloss>>

\* line 87: validation_loss.append(avg_vloss.tolist())
validation_loss_append(validation_loss, avg_vloss) ==
    Append(validation_loss, avg_vloss)

\* AE(layer_sizes): a freshly initialised model
AE == Autoencoders

\* lines 66-73 and 126-138: the optimizer, the two loaders and the empty
\* trajectory.  A loader over zero rows is refused by the sampler of some
\* torch releases (strict) and built by others.
TrainingCall(fn, training_set, validation_set, batchsize, epochs) ==
    /\ frame.pc = "idle"
    /\ \E model \in (IF fn = "get_and_train_autoencoder" THEN AE ELSE {ae}),
          strict \in (IF validation_set = <<>> THEN BOOLEAN ELSE {FALSE}) :
          /\ ae' = model
          /\ IF strict
             THEN /\ frame' = NoFrame
                  /\ ret' = [fn |-> fn,
                             args |-> [training_set |-> training_set,
                                       validation_set |-> validation_set,
                                       batchsize |-> batchsize,
                                       epochs |-> epochs],
                             outcome |-> "ValueError", value |-> <<>>,
                             plotted |-> <<>>, steps |-> 0, epochs_run |-> 0]
             ELSE /\ frame' = [NoFrame EXCEPT
                                  !.pc = "epoch", !.fn = fn,
                                  !.training_set = training_set,
                                  !.validation_set = validation_set,
                                  !.batchsize = batchsize, !.epochs = epochs]
                  /\ ret' = ret
    /\ UNCHANGED <<RD, rng, X_train, y_train>>

\* lines 75-80: ae.train(True), _train_one_epoch(...), ae.train(False),
\* running_vloss = 0.0, and the validation loader starts a shuffled pass
TrainEpoch ==
    /\ frame.pc = "epoch"
    /\ frame.epoch_number < frame.epochs
    /\ \E t \in {train_one_epoch(ae, frame.training_set, frame.batchsize)} :
       \E model \in t.models :
          /\ ae' = model
          /\ frame' = [frame EXCEPT
                          !.pc = "validate", !.training = FALSE,
                          !.steps = @ + t.steps, !.running_vloss = 0,
                          !.remaining = 1..Len(frame.validation_set)]
    /\ UNCHANGED <<RD, rng, X_train, y_train, ret>>

\* lines 81-85: one validation batch: forward pass, loss, running sum
ValidationBatch ==
    /\ frame.pc = "validate"
    /\ frame.remaining # {}
    /\ \E batch \in NextBatches(frame.remaining, frame.batchsize) :
          frame' = [frame EXCEPT
                       !.remaining = @ \ batch,
                       !.i = Batches(Len(frame.validation_set), frame.batchsize)
                               - Batches(Cardinality(frame.remaining), frame.batchsize),
                       !.running_vloss =
                           @ + vloss(ae, frame.validation_set, batch)]
    /\ UNCHANGED <<ae, RD, rng, X_train, y_train, ret>>

\* lines 86-88: the mean over the batches is recorded and the epoch counted;
\* with no batch served i was never assigned and line 86 raises
RecordEpoch ==
    /\ frame.pc = "validate"
    /\ frame.remaining = {}
    /\ IF frame.i = Unbound
       THEN /\ frame' = NoFrame
            /\ ret' = [fn |-> frame.fn,
                       args |-> [training_set |-> frame.training_set,
                                 validation_set |-> frame.validation_set,
                                 batchsize |-> frame.batchsize,
                                 epochs |-> frame.epochs],
                       outcome |-> "UnboundLocalError", value |-> <<>>,
                       plotted |-> <<>>, steps |-> frame.steps,
                       epochs_run |-> frame.epoch_number]
       ELSE /\ frame' = [frame EXCEPT
                            !.pc = "epoch",
                            !.validation_loss = validation_loss_append(
                                @, frame.running_vloss \div (frame.i + 1)),
                            !.epoch_number = @ + 1]
            /\ ret' = ret
    /\ UNCHANGED <<ae, RD, rng, X_train, y_train>>

\* lines 89-96 and 154-161: the trajectory is plotted and the model returned
TrainingReturn ==
    /\ frame.pc = "epoch"
    /\ frame.epoch_number >= frame.epochs
    /\ ret' = [fn |-> frame.fn,
               args |-> [training_set |-> frame.training_set,
                         validation_set |-> frame.validation_set,
                         batchsize |-> frame.batchsize,
                         epochs |-> frame.epochs],
               outcome |-> "return", value |-> <<ae>>,
               plotted |-> frame.validation_loss, steps |-> frame.steps,
               epochs_run |-> frame.epoch_number]
    /\ frame' = NoFrame
    /\ UNCHANGED <<ae, RD, rng, X_train, y_train>>

(* ------------------------------ actions -------------------------------- *)

\* RD = density_predictor(ae, mse_thresh)
DensityPredictor(mse_thresh) ==
    /\ RD' = density_predictor(ae, mse_thresh)
    /\ ret' = [fn |-> "density_predictor",
               args |-> [mse_thresh |-> mse_thresh],
               outcome |-> "return"]
    /\ UNCHANGED <<ae, rng, X_train, y_train, frame>>

\* RD = create_reliability_detector(ae, syn_pts, acc_syn, mse_thresh,
\*                                  acc_thresh, proxy_model)
CreateReliabilityDetector(acc_syn, mse_thresh, acc_thresh, proxy_model) ==
    \E clf \in Fits(binarize(acc_syn, acc_thresh)) :
        LET r == create_reliability_detector(ae, acc_syn, mse_thresh,
                                             acc_thresh, proxy_model, clf) IN
        /\ RD' = IF r.outcome = "return" THEN r.value ELSE RD
        /\ ret' = [fn |-> "create_reliability_detector",
                   args |-> [acc_syn |-> acc_syn, mse_thresh |-> mse_thresh,
                             acc_thresh |-> acc_thresh,
                             proxy_model |-> proxy_model],
                   outcome |-> r.outcome, effects |-> r.effects,
                   y_syn_pts |-> r.y_syn_pts]
        /\ UNCHANGED <<ae, rng, X_train, y_train, frame>>

IsQuery(r) == r.fn = "compute_dataset_reliability"

\* labels = compute_dataset_reliability(RD, X, mode); repeat records that the
\* call before it was the same query
ComputeDatasetReliability(X, mode) ==
    /\ RD.kind # "none"
    /\ LET r == compute_dataset_reliability(RD, X, mode) IN
       ret' = [fn |-> "compute_dataset_reliability",
               args |-> [X |-> X, mode |-> mode],
               outcome |-> r.outcome, value |-> r.value,
               repeat |-> (IsQuery(ret) /\ ret.args = [X |-> X, mode |-> mode])]
    /\ UNCHANGED <<ae, RD, rng, X_train, y_train, frame>>

\* syn_pts, acc_syn = generate_synthetic_points(predict_func, X_train,
\*                                              y_train, method, k)
GenerateSyntheticPoints(predict_func, method, k) ==
    \E r \in {generate_synthetic_points(predict_func, X_train, y_train,
                                        method, k, rng)} :
    /\ X_train' = r.X_train
    /\ y_train' = r.y_train
    /\ rng' = r.rng
    /\ ret' = [fn |-> "generate_synthetic_points",
               args |-> [predict_func |-> predict_func, X_train |-> X_train,
                         y_train |-> y_train, method |-> method, k |-> k],
               outcome |-> r.outcome, value |-> r.value,
               effects |-> r.effects]
    /\ UNCHANGED <<ae, RD, frame>>

\* mse_thresh = perc_mse_threshold(ae, validation_set, perc)
PercMseThreshold(validation_set, perc) ==
    /\ ret' = [fn |-> "perc_mse_threshold",
               args |-> [validation_set |-> validation_set, perc |-> perc],
               outcome |-> "return",
               value |-> perc_mse_threshold(ae, validation_set, perc)]
    /\ UNCHANGED <<ae, RD, rng, X_train, y_train, frame>>

\* fig = mse_threshold_plot(ae, X_val, y_val, predict_func, metric)
MseThresholdPlot(X_val, metric) ==
    \E r \in {mse_threshold_plot(ae, X_val, metric)} :
        /\ ret' = [fn |-> "mse_threshold_plot",
                   args |-> [X_val |-> X_val, metric |-> metric],
                   outcome |-> r.outcome, value |-> r.value,
                   effects |-> r.effects]
        /\ UNCHANGED <<ae, RD, rng, X_train, y_train, frame>>

\* fig = mse_threshold_barplot(ae, X_val, y_val, predict_func)
MseThresholdBarplot(X_val) ==
    \E r \in {mse_threshold_barplot(ae, X_val)} :
        /\ ret' = [fn |-> "mse_threshold_barplot",
                   args |-> [X_val |-> X_val],
                   outcome |-> r.outcome, value |-> r.value,
                   effects |-> r.effects]
        /\ UNCHANGED <<ae, RD, rng, X_train, y_train, frame>>

(* --------------------------- specifications ---------------------------- *)

InitDetector ==
    /\ ae \in Autoencoders
    /\ RD = NoDetector
    /\ rng = 0
    /\ X_train = <<>>
    /\ y_train = <<>>
    /\ ret = NoCall
    /\ frame = NoFrame

\* a client that constructs one detector and then queries it
NextDetector ==
    \/ RD.kind = "none" /\ \E t \in Errs : DensityPredictor(t)
    \/ RD.kind = "none" /\ \E acc_syn \in AccPairs, mt \in Errs, pm \in ProxyModels :
          CreateReliabilityDetector(acc_syn, mt, MaxAcc, pm)
    \/ \E X \in Datasets, mode \in Modes : ComputeDatasetReliability(X, mode)

SpecDetector == InitDetector /\ [][NextDetector]_vars

InitSynthetic ==
    /\ ae = PerfectAutoencoder
    /\ RD = NoDetector
    /\ rng \in 0..(RngMod - 1)
    /\ X_train \in TrainSets
    /\ y_train \in TrainLabels(Len(X_train))
    /\ ret = NoCall
    /\ frame = NoFrame

IsGenerate(r) == r.fn = "generate_synthetic_points"

\* a client that makes one generation call, from any seed of the generator
NextSynthetic ==
    /\ ret = NoCall
    /\ \E predict_func \in Predictors, method \in Methods, k \in 1..Len(X_train) :
          GenerateSyntheticPoints(predict_func, method, k)

SpecSynthetic == InitSynthetic /\ [][NextSynthetic]_vars

IsPerc(r) == r.fn = "perc_mse_threshold"
IsPlot(r) == r.fn = "mse_threshold_plot"
IsCreate(r) == r.fn = "create_reliability_detector"
IsBarplot(r) == r.fn = "mse_threshold_barplot"

\* a client that makes one calibration call
NextThreshold ==
    /\ ret = NoCall
    /\ \/ \E vs \in ValidationSets, perc \in {0, 50, DefaultPerc, Hundred} :
             PercMseThreshold(vs, perc)
       \/ \E X_val \in ValidationSets, metric \in Metrics :
             MseThresholdPlot(X_val, metric)
       \/ \E X_val \in ValidationSets : MseThresholdBarplot(X_val)

SpecThreshold == InitDetector /\ [][NextThreshold]_vars

\* a client that builds combined detectors from accuracy arrays until one is
\* built
NextCreate ==
    /\ RD.kind = "none"
    /\ \E acc_syn \in AccArrays, mt \in Errs, at \in 0..(MaxAcc + 1),
          pm \in ProxyModels :
          CreateReliabilityDetector(acc_syn, mt, at, pm)

InitCreate ==
    /\ ae = PerfectAutoencoder
    /\ RD = NoDetector
    /\ rng = 0
    /\ X_train = <<>>
    /\ y_train = <<>>
    /\ ret = NoCall
    /\ frame = NoFrame

SpecCreate == InitCreate /\ [][NextCreate]_vars

InitTags ==
    /\ ae = PerfectAutoencoder
    /\ RD = NoDetector
    /\ rng = 0
    /\ X_train \in {TrainSet(c, 1) : c \in ColumnLayouts}
    /\ y_train = [row \in 1..1 |-> 1]
    /\ ret = NoCall
    /\ frame = NoFrame

\* a client that tries every tag of the three functions that take one, on
\* the smallest inputs
NextTags ==
    \/ \E method \in Methods : GenerateSyntheticPoints("one", method, 1)
    \/ \E pm \in ProxyModels, at \in Accs :
          CreateReliabilityDetector(<<MaxAcc>>, 0, at, pm)
    \/ \E X_val \in [1..1 -> Points], metric \in Metrics :
          MseThresholdPlot(X_val, metric)

SpecTags == InitTags /\ [][NextTags]_vars

IsTraining(r) == r.fn \in TrainingFunctions

\* a client that trains one autoencoder, with either function
NextTraining ==
    \/ /\ ret = NoCall
       /\ \E fn \in TrainingFunctions, training_set \in TrainingSets,
             validation_set \in Datasets, batchsize \in BatchSizes,
             epochs \in EpochCounts :
             TrainingCall(fn, training_set, validation_set, batchsize, epochs)
    \/ TrainEpoch
    \/ ValidationBatch
    \/ RecordEpoch
    \/ TrainingReturn

SpecTraining == InitDetector /\ [][NextTraining]_vars

(* ------------------------------- claims -------------------------------- *)

AllowedModes == {"density", "local-fit", "total"}

\* the number of samples labelled reliable
ReliableCount(labels) == Cardinality({i \in 1..Len(labels) : labels[i] = 1})

\* C1: a total-mode query of a combined detector returns one binary label per
\* row of X, in input order, and label i is the logical AND of label i of the
\* density-mode query and label i of the local-fit-mode query on the same X.
C1_TotalIsAndOfDensityAndLocalFit ==
    (IsQuery(ret) /\ ret.args.mode = "total" /\ RD.kind = "ReliabilityDetector") =>
        LET X == ret.args.X
            d == compute_dataset_reliability(RD, X, "density")
            l == compute_dataset_reliability(RD, X, "local-fit")
        IN /\ ret.outcome = "return"
           /\ d.outcome = "return"
           /\ l.outcome = "return"
           /\ Len(ret.value) = Len(X)
           /\ \A i \in 1..Len(X) :
                 /\ ret.value[i] \in {0, 1}
                 /\ ret.value[i] = 1 <=> (d.value[i] = 1 /\ l.value[i] = 1)

\* C1 witness: a total query over two rows, one reliable and one that is
\* density-reliable but rejected by the proxy classifier.
C1_Witness ==
    /\ IsQuery(ret) /\ ret.args.mode = "total" /\ RD.kind = "ReliabilityDetector"
    /\ ret.outcome = "return"
    /\ Len(ret.args.X) = 2
    /\ ret.value = <<1, 0>>
    /\ compute_density_reliability(RD, ret.args.X[2]) = 1

\* C2: a query with a mode tag other than 'density', 'local-fit' or 'total'
\* raises an invalid-argument error and never returns a value.
C2_InvalidModeRaises ==
    (IsQuery(ret) /\ ret.args.mode \notin AllowedModes) => ret.outcome = "ValueError"

\* C3: for the autoencoder and any thresholds t1 < t2, every sample of the
\* queried dataset that density_predictor(ae, t1) labels reliable is labelled
\* reliable by density_predictor(ae, t2), so the reliable count under t1 is at
\* most that under t2; a sample is reliable exactly when its reconstruction
\* error is at most the threshold.
C3_DensityMonotoneInThreshold ==
    (IsQuery(ret) /\ ret.args.mode = "density"
        /\ RD.kind = "DensityPrincipleDetector") =>
        LET X == ret.args.X IN
        /\ ret.outcome = "return"
        /\ \A i \in 1..Len(X) : ret.value[i] = 1 <=> ae[X[i]] <= RD.mse_thresh
        /\ \A t1, t2 \in Errs : t1 < t2 =>
              LET l1 == compute_dataset_reliability(density_predictor(ae, t1), X, "density").value
                  l2 == compute_dataset_reliability(density_predictor(ae, t2), X, "density").value
              IN /\ \A i \in 1..Len(X) : l1[i] = 1 => l2[i] = 1
                 /\ ReliableCount(l1) <= ReliableCount(l2)
                 /\ (RD = density_predictor(ae, t1) => ret.value = l1)

\* C3 witness: a density query answered by a density-only detector that finds
\* a sample unreliable which a larger threshold accepts.
C3_Witness ==
    /\ IsQuery(ret) /\ ret.args.mode = "density"
    /\ RD.kind = "DensityPrincipleDetector"
    /\ ret.outcome = "return"
    /\ \E i \in 1..Len(ret.args.X), t2 \in Errs :
          /\ ret.value[i] = 0
          /\ RD.mse_thresh < t2
          /\ compute_density_reliability(density_predictor(ae, t2), ret.args.X[i]) = 1

\* C10: a detector's thresholds are those given at its construction; a query
\* in any mode leaves the detector and the autoencoder as they were, and a
\* query repeated with the same input and mode returns the same labels.
C10_DetectorFrozenAfterConstruction ==
    [][ /\ (ret'.fn = "density_predictor" =>
               /\ RD'.kind = "DensityPrincipleDetector"
               /\ RD'.mse_thresh = ret'.args.mse_thresh
               /\ RD'.ae = ae')
        /\ ((ret'.fn = "create_reliability_detector" /\ ret'.outcome = "return") =>
               /\ RD'.kind = "ReliabilityDetector"
               /\ RD'.mse_thresh = ret'.args.mse_thresh
               /\ RD'.ae = ae')
        /\ (IsQuery(ret') =>
               /\ RD' = RD
               /\ ae' = ae
               /\ (ret'.repeat => /\ ret'.outcome = ret.outcome
                                  /\ ret'.value = ret.value)) ]_vars

\* C10 witness: a combined detector has answered the same query twice.
C10_Witness ==
    /\ IsQuery(ret) /\ ret.repeat /\ ret.outcome = "return"
    /\ RD.kind = "ReliabilityDetector"
    /\ Len(ret.args.X) = 2

\* C5 (as claimed): the one supported method tag is "Gaussian-noise": a call
\* with it generates the synthetic set and a call with any other tag fails.
C5_GaussianNoiseTagGenerates ==
    IsGenerate(ret) =>
        (ret.outcome = "return" <=> ret.args.method = "Gaussian-noise")

\* C5 (amended): the one supported method tag is "GN": a call with it returns
\* the synthetic set, and a call with any other tag, "Gaussian-noise"
\* included, fails with an invalid-argument error and returns nothing.
C5_OnlyGNTagGenerates ==
    IsGenerate(ret) =>
        /\ ret.args.method = "GN" =>
              /\ ret.outcome = "return"
              /\ Len(ret.value.noisy_data) > 0
        /\ ret.args.method # "GN" =>
              /\ ret.outcome = "ValueError"
              /\ ret.value = None

\* C5 witness: a call with the tag "GN" has returned a synthetic set.
C5_Witness ==
    /\ IsGenerate(ret) /\ ret.args.method = "GN"
    /\ ret.outcome = "return"
    /\ Len(ret.value.noisy_data) > Len(X_train)

\* C7: a successful call on a training set of n rows and d columns returns a
\* synthetic set of 6*n rows of d columns each, and an accuracy array with
\* one entry per synthetic row.
C7_SixBlocksSameColumns ==
    (IsGenerate(ret) /\ ret.outcome = "return") =>
        LET n == Len(ret.args.X_train)
            d == Len(ret.args.X_train[1])
        IN /\ Len(ret.value.noisy_data) = 6 * n
           /\ \A s \in 1..Len(ret.value.noisy_data) :
                 Len(ret.value.noisy_data[s]) = d
           /\ Len(ret.value.acc_syn) = 6 * n

\* C7 witness: a synthetic set of 12 rows from 2 training rows of 3 columns.
C7_Witness ==
    /\ IsGenerate(ret) /\ ret.outcome = "return"
    /\ Len(ret.args.X_train) = 2
    /\ Len(ret.args.X_train[1]) = 3
    /\ Len(ret.value.noisy_data) = 12
    /\ Len(ret.value.acc_syn) = 12

\* C8: after a call, whether it returned or raised, X_train and y_train hold
\* the values they held before the call.
C8_TrainingArraysNotMutated ==
    IsGenerate(ret) =>
        /\ X_train = ret.args.X_train
        /\ y_train = ret.args.y_train

\* C8 witness: a call returned noisy blocks that differ from the training
\* rows they were copied from, and the training set is as it was.
C8_Witness ==
    /\ IsGenerate(ret) /\ ret.outcome = "return"
    /\ X_train = ret.args.X_train
    /\ \A b \in 1..(LastLevel - FirstLevel + 1) :
          \E row \in 1..Len(X_train) :
              ret.value.noisy_data[b * Len(X_train) + row] # X_train[row]

SetMin(S) == CHOOSE m \in S : \A v \in S : m <= v
SetMax(S) == CHOOSE m \in S : \A v \in S : v <= m

\* C4: for a non-empty validation set the threshold is non-decreasing in perc
\* over 0..100, is the least per-sample reconstruction error at perc = 0 and
\* the greatest at perc = 100, and the threshold returned (for the default 95
\* as for any perc) lies between the least and the greatest error.
C4_PercentileWithinErrorRange ==
    IsPerc(ret) =>
        LET vs == ret.args.validation_set
            errors == {ae[vs[i]] : i \in 1..Len(vs)}
            lowest == Hundred * SetMin(errors)
            highest == Hundred * SetMax(errors)
        IN /\ \A p \in 0..(Hundred - 1) :
                 perc_mse_threshold(ae, vs, p) <= perc_mse_threshold(ae, vs, p + 1)
           /\ perc_mse_threshold(ae, vs, 0) = lowest
           /\ perc_mse_threshold(ae, vs, Hundred) = highest
           /\ lowest <= ret.value
           /\ ret.value <= highest
           /\ lowest <= perc_mse_threshold(ae, vs, DefaultPerc)
           /\ perc_mse_threshold(ae, vs, DefaultPerc) <= highest

\* C4 witness: the default percentile of two different errors, a threshold
\* strictly between them.
C4_Witness ==
    /\ IsPerc(ret) /\ ret.args.perc = DefaultPerc
    /\ Len(ret.args.validation_set) = 2
    /\ Hundred * ae[ret.args.validation_set[1]] < ret.value
    /\ ret.value < Hundred * ae[ret.args.validation_set[2]]

\* the last call was rejected for its tag
RejectedTag(r) ==
    \/ IsCreate(r) /\ r.args.proxy_model \notin allowed_proxy_model
    \/ IsPlot(r) /\ r.args.metric \notin Range(allowed_metrics)
    \/ IsGenerate(r) /\ r.args.method \notin allowed_methods

\* C6: a call of create_reliability_detector, mse_threshold_plot or
\* generate_synthetic_points with a tag outside the allowed ones raises an
\* invalid-argument error before any step of its computation (no label is
\* binarized, no classifier fitted, no detector constructed, no sweep
\* computed, no array copied, no accuracy computed) and leaves the detector,
\* the training arrays and the random generator as they were.
C6_InvalidTagRejectedBeforeAnyComputation ==
    [][ RejectedTag(ret') =>
           /\ ret'.outcome = "ValueError"
           /\ ret'.effects = <<>>
           /\ (IsCreate(ret') => ret'.y_syn_pts = <<>>)
           /\ (~IsCreate(ret') => ret'.value = None)
           /\ UNCHANGED <<ae, RD, rng, X_train, y_train, frame>> ]_vars

\* C6 witness: a detector exists and a later construction with an unknown
\* proxy model has been rejected.
C6_Witness ==
    /\ IsCreate(ret) /\ ret.args.proxy_model = "forest"
    /\ ret.outcome = "ValueError"
    /\ RD.kind = "ReliabilityDetector"
    /\ rng # 0

\* C9: the training labels of the proxy classifier are the binarized
\* accuracies: as many as acc_syn, in its order, label i being 1 exactly when
\* acc_syn[i] >= acc_thresh and 0 exactly when acc_syn[i] < acc_thresh; the
\* classifier of the detector is one fitted to these labels.
C9_LabelsBinarizedAtThreshold ==
    (IsCreate(ret) /\ ret.outcome = "return") =>
        /\ Len(ret.y_syn_pts) = Len(ret.args.acc_syn)
        /\ \A i \in 1..Len(ret.args.acc_syn) :
              /\ ret.y_syn_pts[i] = 1 <=> ret.args.acc_syn[i] >= ret.args.acc_thresh
              /\ ret.y_syn_pts[i] = 0 <=> ret.args.acc_syn[i] < ret.args.acc_thresh
        /\ RD.clf \in Fits(ret.y_syn_pts)

\* C9 witness: an accuracy equal to the threshold labelled reliable, followed
\* by a lower one labelled unreliable.
C9_Witness ==
    /\ IsCreate(ret) /\ ret.outcome = "return"
    /\ Len(ret.args.acc_syn) = 2
    /\ ret.args.acc_syn[1] = ret.args.acc_thresh
    /\ ret.args.acc_syn[2] < ret.args.acc_thresh
    /\ ret.y_syn_pts = <<1, 0>>

(* ---------------------------------------------------------------------- *)
\* the optimizer steps one epoch takes over the call's training set
StepsPerEpoch(training_set, batchsize) == Batches(Len(training_set), batchsize)

TrainingCounters ==
    /\ frame.pc \in {"epoch", "validate"} =>
          /\ Len(frame.validation_loss) = frame.epoch_number
          /\ frame.epoch_number <= frame.epochs
    /\ frame.pc = "epoch" =>
          frame.steps = frame.epoch_number
                          * StepsPerEpoch(frame.training_set, frame.batchsize)
    /\ frame.pc = "validate" =>
          /\ frame.epoch_number < frame.epochs
          /\ ~frame.training
          /\ frame.steps = (frame.epoch_number + 1)
                            * StepsPerEpoch(frame.training_set, frame.batchsize)

\* what a completed training call hands back
TrainingCompleted ==
    (IsTraining(ret) /\ ret.outcome = "return") =>
        /\ ret.epochs_run = ret.args.epochs
        /\ Len(ret.plotted) = ret.args.epochs
        /\ ret.steps = ret.args.epochs
                         * StepsPerEpoch(ret.args.training_set, ret.args.batchsize)
        /\ ret.value = <<ae>>

\* a step of the validation pass updates no parameter, and only the step that
\* ends the pass records a loss; the training phase records none
TrainingStep ==
    /\ frame.pc = "validate" =>
          /\ ae' = ae
          /\ (frame'.pc # "idle") => (frame'.steps = frame.steps)
          /\ (frame'.pc = "validate") =>
                (frame'.validation_loss = frame.validation_loss)
          /\ (frame'.pc = "epoch") =>
                /\ frame'.epoch_number = frame.epoch_number + 1
                /\ Len(frame'.validation_loss) = Len(frame.validation_loss) + 1
    /\ (frame.pc = "epoch" /\ frame'.pc = "validate") =>
          /\ frame'.validation_loss = frame.validation_loss
          /\ frame'.epoch_number = frame.epoch_number

Deviates == {StandardNormal(r) : r \in 0..(RngMod - 1)}

\* C12: in the synthetic set of a successful call on n training rows, rows
\* 1..n are the training rows in their order, and row r of block b (b = 1..5)
\* is training row r at noise level b+1: a column whose training values are
\* all integers holds a value that occurs in that column of the training set,
\* and any other column holds the training value plus (b+1)*0.1 times a
\* normal deviate.
C12_OriginalBlockThenNoiseLevelBlocks ==
    (IsGenerate(ret) /\ ret.outcome = "return") =>
        LET X == ret.args.X_train
            n == Len(X)
            out == ret.value.noisy_data
        IN /\ \A row \in 1..n : out[row] = X[row]
           /\ \A b \in 1..(LastLevel - FirstLevel + 1), row \in 1..n,
                 i \in 1..Len(X[1]) :
                 IF contains_only_integers(Column(X, i))
                 THEN out[b * n + row][i] \in Range(Column(X, i))
                 ELSE \E z \in Deviates :
                         out[b * n + row][i] = X[row][i] + (b + 1) * z

\* C12 witness: a call on two rows with an integer-only column and a column
\* that is not returned a noisy block whose integer-only column was resampled
\* to another observed value and whose other column moved off its training
\* value.
C12_Witness ==
    /\ IsGenerate(ret) /\ ret.outcome = "return"
    /\ Len(ret.args.X_train) = 2
    /\ \E i, c \in 1..Len(ret.args.X_train[1]) :
          /\ contains_only_integers(Column(ret.args.X_train, i))
          /\ ~contains_only_integers(Column(ret.args.X_train, c))
          /\ \E b \in 1..(LastLevel - FirstLevel + 1), row \in 1..2 :
                /\ ret.value.noisy_data[b * 2 + row][i] # ret.args.X_train[row][i]
                /\ ret.value.noisy_data[b * 2 + row][c] # ret.args.X_train[row][c]

(* ---------------------------------------------------------------------- *)
\* the sweep of a figure has one threshold per percentile 2..99, in order
SweepCoversPercentiles(a, X_val, fig) ==
    /\ Len(fig.mse_threshold_list) = LastPercentile - FirstPercentile + 1
    /\ \A i \in 0..(Len(fig.mse_threshold_list) - 1) :
          fig.mse_threshold_list[i + 1] = perc_mse_threshold(a, X_val, i + 2)

\* C13: the sweep of both figures covers the percentiles 2..99 in ascending
\* order, entry i (0-based) being the threshold at percentile i + 2, and every
\* percentile a figure reports for entry i names percentile i + 2: the slider
\* labels of both figures, the step titles of the bar plot, and the title of
\* the entry the bar plot shows first.
C13_SweepEntriesNamedByTheirPercentile ==
    /\ (IsPlot(ret) /\ ret.outcome = "return") =>
          /\ SweepCoversPercentiles(ae, ret.args.X_val, ret.value)
          /\ \A i \in 0..(Len(ret.value.labels) - 1) :
                ret.value.labels[i + 1] = i + 2
    /\ (IsBarplot(ret) /\ ret.outcome = "return") =>
          /\ SweepCoversPercentiles(ae, ret.args.X_val, ret.value)
          /\ \A i \in 0..(Len(ret.value.steps) - 1) :
                /\ ret.value.steps[i + 1].label = i + 2
                /\ ret.value.steps[i + 1].title.percentile = i + 2
                /\ ret.value.steps[i + 1].title.mse_threshold
                      = ret.value.mse_threshold_list[i + 1]
          /\ ret.value.title.mse_threshold
                = ret.value.mse_threshold_list[ret.value.active + 1]
          /\ ret.value.title.percentile = ret.value.active + 2

====
